---- MODULE Spec2Model ----
(***************************************************************************)
(* The concurrent fetch-and-persist engine of stockstreamer                *)
(* (src/data_fetcher.py): IEXStockFetcher's per-symbol fetches and         *)
(* fan-out rounds, PostgreSQLStockManager's sink operations and its three  *)
(* polling loops, which main() runs as three threads over one shared       *)
(* psycopg2 connection.                                                    *)
(***************************************************************************)
EXTENDS Naturals, Integers, Sequences, FiniteSets, Bags, TLC

(***************************************************************************)
(* Bounds of the model.                                                    *)
(***************************************************************************)
\* how many symbols of main()'s watch list are tracked
NumStocks == 2
\* distinct payloads the remote API may answer with, per category
NumVals == 2
\* nested fetch calls the interpreter allows one thread before it raises
\* RecursionError (CPython: sys.getrecursionlimit(), 1000 by default)
RecursionLimit == 2
\* events of the environment a run is followed for: a failed attempt, an answer
\* of the remote API other than its usual one, the clock moving on, a sleep
\* running out
MaxEvents == 2
\* loop iterations each loop is followed for in the fair specification
MaxTicks == 2
\* last clock reading of the timed specification
Horizon == 10

(***************************************************************************)
(* Program constants.                                                      *)
(***************************************************************************)
\* main(): partial(manager.fetchInsertStockLoop, 5)
PriceSleep == 5
\* main(): partial(manager.fetchUpdateImageURLLoop, 5000)
ImageSleep == 5000
\* main(): partial(manager.fetchUpdateHighLowLoop, 5000)
HighLowSleep == 5000

\* main(): stocks_to_fetch
stocks_to_fetch == <<"GE", "AMZN", "NVDA", "INTC", "AAPL", "NFLX">>

\* StockFetcher.__init__: self.stocks (the first NumStocks of the watch list)
stocks == SubSeq(stocks_to_fetch, 1, NumStocks)

StockSet == {stocks[i] : i \in 1..Len(stocks)}

\* the three loops main() starts, named by the data they poll
Categories == {"price", "image", "highlow"}

VARIABLES
    now,        \* the wall clock datetime.datetime.now() reads
    pc,         \* pc[c]: where the loop of category c stands
    ticks,      \* ticks[c]: iterations the loop of category c has completed
    launched,   \* launched[c]: threads of the current round started so far
    alive,      \* alive[c]: symbols whose fetch thread is still running
    depth,      \* depth[c][s]: failed attempts (nested calls) of that thread
    timestamp,  \* stock_data['timestamp'] of the price round
    results,    \* results[c]: the round's dict, as <<stock, value>> in insertion order
    pos,        \* pos[c]: index of the item the persist loop is at
    wake,       \* wake[c]: clock reading at which time.sleep returns
    db,         \* db[c]: rows of category c's table as the connection sees them
    committed,  \* committed[c]: rows of category c's table that are committed
    spent,      \* events of the environment so far
    written,    \* history: written[c]: the rows the loop of c inserted in its current iteration
    last        \* history: last[c][s]: <<v>> for the value v of the last completed
                \* sink call of category c for symbol s, <<>> when there was none

vars == <<now, pc, ticks, launched, alive, depth, timestamp, results, pos, wake,
          db, committed, spent, written, last>>

(***************************************************************************)
(* The remote API and the values a successful attempt parses out of it.    *)
(***************************************************************************)
\* fetchPrice: float(resp.readlines()[0])
Prices == 1..NumVals

\* fetchImageURL: resp['url']
URLs == {<<"url", v>> : v \in 1..NumVals}

\* fetchStockHighLow: (resp['week52High'], resp['week52Low'])
HighLows == {<<10 + v, v>> : v \in 1..NumVals}

\* the value a successful attempt of category c returns
Payloads(c) ==
    CASE c = "price" -> Prices
      [] c = "image" -> URLs
      [] c = "highlow" -> HighLows

\* mutant of sleeptime: every loop is handed the price loop's interval
sleeptime_AllPrice(c) == PriceSleep

\* the sleeptime main() hands each loop
sleeptime(c) ==
    CASE c = "price" -> PriceSleep
      [] c = "image" -> ImageSleep
      [] c = "highlow" -> HighLowSleep

(***************************************************************************)
(* Python dicts: insertion ordered, one entry per key.                     *)
(***************************************************************************)
Keys(d) == {d[i][1] : i \in 1..Len(d)}

\* mutant of DictSet: the write rebinds the dict to one holding its entry only
DictSet_Rebind(d, k, v) == <<<<k, v>>>>

\* results[stock] = value
DictSet(d, k, v) ==
    IF k \in Keys(d)
    THEN [i \in 1..Len(d) |-> IF d[i][1] = k THEN <<k, v>> ELSE d[i]]
    ELSE Append(d, <<k, v>>)

(***************************************************************************)
(* SQL tables: bags of rows.                                               *)
(***************************************************************************)
\* mutant of InsertRow: a row that is already there is not inserted again
InsertRow_IfAbsent(table, row) ==
    IF row \in DOMAIN table THEN table ELSE table (+) SetToBag({row})

\* INSERT INTO table VALUES(row)
InsertRow(table, row) == table (+) SetToBag({row})

\* mutant of DeleteRows: the delete statement is left out
DeleteRows_Nothing(table, stock) == table

\* DELETE FROM table WHERE stock_name = stock (stock_name is the first column
\* of stock_image_urls and of stock_highlow)
DeleteRows(table, stock) ==
    [r \in {x \in DOMAIN table : x[1] # stock} |-> table[r]]

\* the row insertStock writes
PriceRow(time, stock, price) == <<time, stock, price>>

\* the row updateStockURL writes
URLRow(stock, url) == <<stock, url>>

\* the row updateStockHighLow writes
HighLowRow(stock, high_price, low_price) == <<stock, high_price, low_price>>

\* mutant of RowOf: the price row is stamped when it is written
RowOf_StampAtWrite(c, item) ==
    CASE c = "price" -> PriceRow(now, item[1], item[2])
      [] c = "image" -> URLRow(item[1], item[2])
      [] c = "highlow" -> HighLowRow(item[1], item[2][1], item[2][2])

\* the row the sink operation of category c writes for one item of the snapshot
RowOf(c, item) ==
    CASE c = "price" -> PriceRow(timestamp, item[1], item[2])
      [] c = "image" -> URLRow(item[1], item[2])
      [] c = "highlow" -> HighLowRow(item[1], item[2][1], item[2][2])

Init ==
    /\ now = 0
    /\ pc = [c \in Categories |-> "start"]
    /\ ticks = [c \in Categories |-> 0]
    /\ launched = [c \in Categories |-> 0]
    /\ alive = [c \in Categories |-> {}]
    /\ depth = [c \in Categories |-> [s \in StockSet |-> 0]]
    /\ timestamp = 0
    /\ results = [c \in Categories |-> <<>>]
    /\ pos = [c \in Categories |-> 0]
    /\ wake = [c \in Categories |-> 0]
    /\ db = [c \in Categories |-> EmptyBag]
    /\ committed = [c \in Categories |-> EmptyBag]
    /\ spent = 0
    /\ written = [c \in Categories |-> <<>>]
    /\ last = [c \in Categories |-> [s \in StockSet |-> <<>>]]

(***************************************************************************)
(* IEXStockFetcher: one fan-out round.                                     *)
(***************************************************************************)
\* stock_data['timestamp'] = datetime.datetime.now()
CaptureTime == now

\* fetchAllPrices / fetchAllImages / fetchAllHighLow up to the first for loop:
\* a fresh result dict and, for prices, the capture timestamp
fetchAll(c) ==
    /\ pc[c] = "start"
    /\ results' = [results EXCEPT ![c] = <<>>]
    /\ timestamp' = IF c = "price" THEN CaptureTime ELSE timestamp
    /\ launched' = [launched EXCEPT ![c] = 0]
    /\ pc' = [pc EXCEPT ![c] = "launch"]
    /\ written' = [written EXCEPT ![c] = <<>>]
    /\ UNCHANGED <<now, ticks, alive, depth, pos, wake, db, committed, last>>

\* for stock in self.stocks: t = Thread(...); threads.append(t); t.start()
ThreadStart(c) ==
    /\ pc[c] = "launch"
    /\ launched[c] < Len(stocks)
    /\ LET s == stocks[launched[c] + 1] IN
        /\ alive' = [alive EXCEPT ![c] = @ \cup {s}]
        /\ depth' = [depth EXCEPT ![c][s] = 0]
    /\ launched' = [launched EXCEPT ![c] = @ + 1]
    /\ pc' = [pc EXCEPT ![c] = IF launched[c] + 1 = Len(stocks) THEN "join" ELSE "launch"]
    /\ UNCHANGED <<now, ticks, timestamp, results, pos, wake, db, committed, written, last>>

\* whether one more nested call of the fetch method fits the thread's stack
CanRecurse(d) == d + 1 < RecursionLimit

\* fetchPrice / fetchImageURL / fetchStockHighLow: the attempt raises (network
\* error, unparsable body, missing field) and the except clause calls the method
\* again; when the interpreter's recursion limit is reached that call raises
\* RecursionError, which leaves every enclosing except clause and ends the
\* thread without a write to results
fetchExcept(c, s) ==
    /\ s \in alive[c]
    /\ IF CanRecurse(depth[c][s])
       THEN /\ depth' = [depth EXCEPT ![c][s] = @ + 1]
            /\ alive' = alive
       ELSE /\ depth' = [depth EXCEPT ![c][s] = 0]
            /\ alive' = [alive EXCEPT ![c] = @ \ {s}]
    /\ UNCHANGED <<now, pc, ticks, launched, timestamp, results, pos, wake, db, committed, written, last>>

\* mutant of fetchInto: one dict, kept by the fetcher, is shared by all rounds
fetchInto_SharedDict(c, s, v) ==
    /\ s \in alive[c]
    /\ results' = [d \in Categories |-> DictSet(results[d], s, v)]
    /\ alive' = [alive EXCEPT ![c] = @ \ {s}]
    /\ depth' = [depth EXCEPT ![c][s] = 0]
    /\ UNCHANGED <<now, pc, ticks, launched, timestamp, pos, wake, db, committed, written, last>>

\* fetchPriceInto / fetchURLInto / fetchHighLowInto: the attempt succeeds, the
\* value is returned through the nested calls and stored under the symbol
fetchInto(c, s, v) ==
    /\ s \in alive[c]
    /\ results' = [results EXCEPT ![c] = DictSet(@, s, v)]
    /\ alive' = [alive EXCEPT ![c] = @ \ {s}]
    /\ depth' = [depth EXCEPT ![c][s] = 0]
    /\ UNCHANGED <<now, pc, ticks, launched, timestamp, pos, wake, db, committed, written, last>>

\* mutant of Joined: only the first thread is joined
Joined_FirstOnly(c) == stocks[1] \notin alive[c]

\* mutant of Joined: the threads of every category are joined
Joined_AllCategories(c) == \A d \in Categories : alive[d] = {}

\* mutant of Joined: the round returns without joining its threads
Joined_NoWait(c) == TRUE

\* for t in threads: t.join() has returned for every thread
Joined(c) == alive[c] = {}

\* the join loop ends and fetchAll returns; the persist loop takes its first
\* item, or falls through to time.sleep when the dict is empty
join(c) ==
    /\ pc[c] = "join"
    /\ Joined(c)
    /\ pc' = [pc EXCEPT ![c] = IF results[c] = <<>> THEN "sleep" ELSE "call"]
    /\ pos' = [pos EXCEPT ![c] = IF results[c] = <<>> THEN 0 ELSE 1]
    /\ UNCHANGED <<now, ticks, launched, alive, depth, timestamp, results, wake, db, committed, written, last>>

(***************************************************************************)
(* PostgreSQLStockManager: the sink operations, statement by statement.    *)
(* All three loops use self.conn: one connection, one open transaction.    *)
(***************************************************************************)
\* mutant of NextItem: the for loop is left after its first item
NextItem_LeaveEarly(c) ==
    /\ last' = [last EXCEPT ![c][results[c][pos[c]][1]] = <<results[c][pos[c]][2]>>]
    /\ pc' = [pc EXCEPT ![c] = "sleep"]
    /\ pos' = [pos EXCEPT ![c] = 0]
    /\ results' = [results EXCEPT ![c] = <<>>]
    /\ written' = [written EXCEPT ![c] = <<>>]

\* the sink call returns and the persist loop moves to its next item, or leaves
\* the for loop (the snapshot is not read again: it is dropped here)
NextItem(c) ==
    /\ last' = [last EXCEPT ![c][results[c][pos[c]][1]] = <<results[c][pos[c]][2]>>]
    /\ IF pos[c] < Len(results[c])
       THEN /\ pc' = [pc EXCEPT ![c] = "call"]
            /\ pos' = [pos EXCEPT ![c] = @ + 1]
            /\ UNCHANGED <<results, written>>
       ELSE /\ pc' = [pc EXCEPT ![c] = "sleep"]
            /\ pos' = [pos EXCEPT ![c] = 0]
            /\ results' = [results EXCEPT ![c] = <<>>]
            /\ written' = [written EXCEPT ![c] = <<>>]

\* mutant of insertStock: the query names the logo table
insertStock_IntoImage(c) ==
    /\ c = "price"
    /\ pc[c] = "call"
    /\ db' = [db EXCEPT !["image"] = InsertRow(@, RowOf(c, results[c][pos[c]]))]
    /\ written' = [written EXCEPT ![c] = Append(@, RowOf(c, results[c][pos[c]]))]
    /\ pc' = [pc EXCEPT ![c] = "commit"]
    /\ UNCHANGED <<now, ticks, launched, alive, depth, timestamp, results, pos, wake, committed, last>>

\* insertStock: cur.execute(query)
insertStock(c) ==
    /\ c = "price"
    /\ pc[c] = "call"
    /\ db' = [db EXCEPT ![c] = InsertRow(@, RowOf(c, results[c][pos[c]]))]
    /\ written' = [written EXCEPT ![c] = Append(@, RowOf(c, results[c][pos[c]]))]
    /\ pc' = [pc EXCEPT ![c] = "commit"]
    /\ UNCHANGED <<now, ticks, launched, alive, depth, timestamp, results, pos, wake, committed, last>>

\* updateStockURL / updateStockHighLow: cur.execute(delete_query)
updateDelete(c) ==
    /\ c \in {"image", "highlow"}
    /\ pc[c] = "call"
    /\ db' = [db EXCEPT ![c] = DeleteRows(@, results[c][pos[c]][1])]
    /\ pc' = [pc EXCEPT ![c] = "insert"]
    /\ UNCHANGED <<now, ticks, launched, alive, depth, timestamp, results, pos, wake, committed, written, last>>

\* updateStockURL / updateStockHighLow: cur.execute(query)
updateInsert(c) ==
    /\ pc[c] = "insert"
    /\ db' = [db EXCEPT ![c] = InsertRow(@, RowOf(c, results[c][pos[c]]))]
    /\ written' = [written EXCEPT ![c] = Append(@, RowOf(c, results[c][pos[c]]))]
    /\ pc' = [pc EXCEPT ![c] = "commit"]
    /\ UNCHANGED <<now, ticks, launched, alive, depth, timestamp, results, pos, wake, committed, last>>

\* self.conn.commit(): everything executed on the connection becomes committed
commit(c) ==
    /\ pc[c] = "commit"
    /\ committed' = db
    /\ IF c = "highlow"
       THEN /\ pc' = [pc EXCEPT ![c] = "commit2"]
            /\ UNCHANGED <<pos, results, written, last>>
       ELSE NextItem(c)
    /\ UNCHANGED <<now, ticks, launched, alive, depth, timestamp, wake, db>>

\* updateStockHighLow: the second self.conn.commit()
commitAgain(c) ==
    /\ pc[c] = "commit2"
    /\ committed' = db
    /\ NextItem(c)
    /\ UNCHANGED <<now, ticks, launched, alive, depth, timestamp, wake, db>>

(***************************************************************************)
(* The loops' sleep, and the clock.                                        *)
(***************************************************************************)
\* time.sleep(sleeptime) is called; it returns no sooner than the clock reads until
sleep(c, until) ==
    /\ pc[c] = "sleep"
    /\ pc' = [pc EXCEPT ![c] = "asleep"]
    /\ wake' = [wake EXCEPT ![c] = until]
    /\ UNCHANGED <<now, ticks, launched, alive, depth, timestamp, results, pos, db, committed, written, last>>

\* time.sleep returns and the while loop starts over
wakeUp(c) ==
    /\ pc[c] = "asleep"
    /\ pc' = [pc EXCEPT ![c] = "start"]
    /\ ticks' = [ticks EXCEPT ![c] = @ + 1]
    /\ UNCHANGED <<now, launched, alive, depth, timestamp, results, pos, wake, db, committed, written, last>>

\* the wall clock moves on
Tick ==
    /\ now' = now + 1
    /\ UNCHANGED <<pc, ticks, launched, alive, depth, timestamp, results, pos, wake, db, committed, written, last>>

\* the answer the remote API usually gives to a request of category c
Usual(c) ==
    CASE c = "price" -> 1
      [] c = "image" -> <<"url", 1>>
      [] c = "highlow" -> <<11, 1>>

\* a step of the loop of category c or of one of its fetch threads, the remote
\* API answering as usual
Work(c) ==
    \/ ThreadStart(c)
    \/ \E s \in StockSet : fetchInto(c, s, Usual(c))
    \/ join(c)
    \/ insertStock(c)
    \/ updateDelete(c)
    \/ updateInsert(c)
    \/ commit(c)
    \/ commitAgain(c)

(***************************************************************************)
(* Spec: the three loops of main() with the clock left abstract (a sleep   *)
(* may run out at any time), under at most MaxEvents events of the         *)
(* environment.                                                            *)
(***************************************************************************)
\* an event of the environment
Event ==
    \/ Tick
    \/ \E c \in Categories : wakeUp(c)
    \/ \E c \in Categories : \E s \in StockSet : fetchExcept(c, s)
    \/ \E c \in Categories : \E s \in StockSet :
           \E v \in Payloads(c) \ {Usual(c)} : fetchInto(c, s, v)

Next ==
    \/ (\E c \in Categories : fetchAll(c) \/ Work(c) \/ sleep(c, wake[c])) /\ spent' = spent
    \/ spent < MaxEvents /\ Event /\ spent' = spent + 1

Spec == Init /\ [][Next]_vars

(***************************************************************************)
(* SpecTimed: the three loops against the clock, every fetch and every     *)
(* sink write taking no time: the clock moves only while all loops sleep,  *)
(* and a sleep runs out when its interval has passed.                      *)
(***************************************************************************)
\* time.sleep(sleeptime) returns once sleeptime has passed
wakeTimed(c) ==
    /\ now >= wake[c]
    /\ wakeUp(c)

\* time passes while every loop is asleep
Elapse ==
    /\ now < Horizon
    /\ \A c \in Categories : pc[c] = "asleep" /\ now < wake[c]
    /\ Tick

NextTimed ==
    /\ \/ \E c \in Categories : fetchAll(c)
       \/ \E c \in Categories : Work(c)
       \/ \E c \in Categories : sleep(c, now + sleeptime(c))
       \/ \E c \in Categories : wakeTimed(c)
       \/ Elapse
    /\ spent' = spent

SpecTimed == Init /\ [][NextTimed]_vars

(***************************************************************************)
(* SpecFair: the three loops under a scheduler that is fair to the price   *)
(* loop and its fetch threads only: a loop or a fetch thread of another    *)
(* category may stand still anywhere, for ever (urlopen is called without  *)
(* a timeout).  Each loop is followed for MaxTicks iterations.             *)
(***************************************************************************)
\* the price loop and its fetch threads
PriceNext ==
    /\ \/ ticks["price"] < MaxTicks /\ fetchAll("price")
       \/ Work("price")
       \/ sleep("price", wake["price"])
       \/ wakeUp("price")
    /\ spent' = spent

\* the loops and fetch threads of the other categories
OtherNext ==
    /\ \E c \in Categories \ {"price"} :
          \/ ticks[c] < MaxTicks /\ fetchAll(c)
          \/ Work(c)
          \/ sleep(c, wake[c])
          \/ wakeUp(c)
    /\ spent' = spent

NextFair == PriceNext \/ OtherNext

SpecFair == Init /\ [][NextFair]_vars /\ WF_vars(PriceNext)

(***************************************************************************)
(* SpecSink: the three loops with a sink that may fail.  A statement of a  *)
(* sink operation may raise; nothing in the loops or in main() catches it, *)
(* so it leaves the loop's target function and ends that loop's thread.    *)
(* The remote API answers as usual and no attempt fails here.              *)
(***************************************************************************)
\* mutant of sinkRaise: the exception ends every loop, as os._exit would
sinkRaise_EndsProcess(c) ==
    /\ pc[c] \in {"call", "insert", "commit", "commit2"}
    /\ pc' = [d \in Categories |-> "dead"]
    /\ UNCHANGED <<now, ticks, launched, alive, depth, timestamp, results, pos, wake, db, committed, written, last>>

\* insertStock / updateStockURL / updateStockHighLow: cur.execute or
\* self.conn.commit() raises; the exception propagates out of the sink
\* operation and out of the loop, whose thread ends (Thread.run lets an
\* uncaught exception end its own thread only)
sinkRaise(c) ==
    /\ pc[c] \in {"call", "insert", "commit", "commit2"}
    /\ pc' = [pc EXCEPT ![c] = "dead"]
    /\ UNCHANGED <<now, ticks, launched, alive, depth, timestamp, results, pos, wake, db, committed, written, last>>

\* an event of the environment of the sink
EventSink ==
    \/ \E c \in Categories : wakeUp(c)
    \/ \E c \in Categories : sinkRaise(c)

NextSink ==
    \/ (\E c \in Categories : fetchAll(c) \/ Work(c) \/ sleep(c, wake[c])) /\ spent' = spent
    \/ spent < MaxEvents /\ EventSink /\ spent' = spent + 1

SpecSink == Init /\ [][NextSink]_vars

(***************************************************************************)
(* The properties.                                                         *)
(***************************************************************************)
\* the statements of a sink call that is under way
InCall == {"insert", "commit", "commit2"}

\* the locations of the persist loop
Persisting == {"call"} \cup InCall

\* the phase of a loop at location p
Phase(p) ==
    CASE p \in {"start", "launch", "join"} -> "Collecting"
      [] p \in Persisting -> "Persisting"
      [] p \in {"sleep", "asleep"} -> "Sleeping"

\* the rows of a table for one symbol (stock_name is column col)
RowsFor(table, col, stock) ==
    [r \in {x \in DOMAIN table : x[col] = stock} |-> table[r]]

\* the row a sink call of category c owes for symbol s with value v
Owed(c, s, v) ==
    CASE c = "price" -> <<timestamp, s, v>>
      [] c = "image" -> <<s, v>>
      [] c = "highlow" -> <<s, v[1], v[2]>>

\* C1: whenever a collection round has returned, the key set of the returned
\* mapping is exactly the symbol set, each symbol once (the claim as stated;
\* the code breaks it when a fetch thread dies of RecursionError)
C1_SnapshotKeysAreSymbols ==
    \A c \in Categories :
        pc[c] \in Persisting =>
            /\ Keys(results[c]) = StockSet
            /\ Len(results[c]) = Cardinality(StockSet)

\* C2: a single-symbol fetch that has ended has ended by returning a value,
\* which its thread stored: it never raises (the claim as stated; the code
\* raises RecursionError after RecursionLimit failed attempts in a row)
C2_FetchNeverRaises ==
    \A c \in Categories : \A i \in 1..launched[c] :
        (pc[c] \in {"launch", "join"} /\ stocks[i] \notin alive[c])
            => stocks[i] \in Keys(results[c])

\* C3: a round returns, and a row of its tick is written, only when every
\* fetch thread launched in the round has finished and all were launched
C3_Barrier ==
    [][\A c \in Categories :
          (db'[c] # db[c] \/ (pc[c] = "join" /\ pc'[c] # "join"))
              => alive[c] = {} /\ launched[c] = Len(stocks)]_vars

\* C3 witness: one symbol of a round is fetched, a straggler is still running,
\* and nothing of the round is persisted
C3_Witness ==
    \E c \in Categories :
        /\ pc[c] = "join"
        /\ alive[c] # {}
        /\ results[c] # <<>>
        /\ written[c] = <<>>
        /\ db[c] = EmptyBag

\* C4: the price round's timestamp is set once, by the step that starts the
\* round, to the clock reading of that moment and before any thread is
\* launched; every row the tick writes carries it
C4_OneTimestamp ==
    [][/\ IF pc["price"] = "start" /\ pc'["price"] = "launch"
          THEN timestamp' = now /\ launched'["price"] = 0 /\ alive'["price"] = {}
          ELSE timestamp' = timestamp
       /\ \A i \in 1..Len(written'["price"]) :
             written'["price"][i][1] = timestamp']_vars

\* C4 witness: both rows of a tick are written with the capture time although
\* the clock has moved on since
C4_Witness ==
    /\ Len(written["price"]) = 2
    /\ written["price"][1][1] = timestamp
    /\ written["price"][2][1] = timestamp
    /\ now > timestamp

\* C5: between calls of updateStockURL (updateStockHighLow) the table holds,
\* as the connection sees it and as committed, for every symbol exactly the
\* one row of the last completed call for it, and no row for a symbol never
\* written
C5_LastWriteWins ==
    \A c \in {"image", "highlow"} :
        pc[c] \notin InCall =>
            \A s \in StockSet :
                LET owed == IF last[c][s] = <<>>
                            THEN EmptyBag
                            ELSE SetToBag({Owed(c, s, last[c][s][1])})
                IN  /\ RowsFor(db[c], 1, s) = owed
                    /\ RowsFor(committed[c], 1, s) = owed

\* C5 witness: the second poll's value, which differs from the first poll's,
\* is the only row of its symbol
C5_Witness ==
    \E c \in {"image", "highlow"} :
        /\ ticks[c] = 1
        /\ pc[c] = "call"
        /\ pos[c] = 2
        /\ results[c][1][2] # Usual(c)
        /\ RowsFor(committed[c], 1, results[c][1][1])
              = SetToBag({Owed(c, results[c][1][1], results[c][1][2])})

\* C6: every insertStock call adds exactly one row to the price table, no
\* other step changes the table, and no row is ever removed or changed, in
\* the connection's view and in the committed table
C6_InsertOnly ==
    [][LET old == db["price"]
           new == db'["price"]
       IN  /\ \A r \in DOMAIN old : r \in DOMAIN new /\ new[r] >= old[r]
           /\ IF pc["price"] = "call" /\ pc'["price"] = "commit"
              THEN BagCardinality(new) = BagCardinality(old) + 1
              ELSE new = old
           /\ \A r \in DOMAIN committed["price"] :
                 /\ r \in DOMAIN committed'["price"]
                 /\ committed'["price"][r] >= committed["price"][r]]_vars

\* C6 witness: two calls with identical arguments have left two rows
C6_Witness ==
    \E r \in DOMAIN db["price"] : db["price"][r] = 2

\* a step of the loop of category c or of one of its fetch threads
LoopCanStep(c) ==
    \/ ENABLED fetchAll(c)
    \/ ENABLED Work(c)
    \/ ENABLED sleep(c, 0)
    \/ ENABLED wakeUp(c)

\* C7: a loop moves Collecting -> Persisting -> Sleeping -> Collecting and in
\* no other way (an empty snapshot has no entry to persist); it starts to
\* persist when the round is complete, it leaves the persist loop having
\* written one row per entry of the snapshot, in order and with the entry's
\* value, it collects again only after its sleep, and it can always go on
C7_Cycle ==
    /\ [][\A c \in Categories :
            /\ Phase(pc'[c]) # Phase(pc[c]) =>
                  \/ /\ Phase(pc[c]) = "Collecting"
                     /\ Phase(pc'[c]) = "Persisting"
                     /\ pc[c] = "join" /\ alive[c] = {}
                  \/ /\ Phase(pc[c]) = "Collecting"
                     /\ Phase(pc'[c]) = "Sleeping"
                     /\ pc[c] = "join" /\ alive[c] = {} /\ results[c] = <<>>
                  \/ /\ Phase(pc[c]) = "Persisting"
                     /\ Phase(pc'[c]) = "Sleeping"
                     /\ written[c] = [i \in 1..Len(results[c]) |->
                                        Owed(c, results[c][i][1], results[c][i][2])]
                  \/ /\ Phase(pc[c]) = "Sleeping"
                     /\ Phase(pc'[c]) = "Collecting"
                     /\ pc[c] = "asleep" /\ pc'[c] = "start"
            /\ Len(written'[c]) <= Len(results'[c])]_vars
    /\ [](\A c \in Categories : LoopCanStep(c))

\* C7 witness: a loop that has slept once is persisting the second entry of
\* its second snapshot
C7_Witness ==
    \E c \in Categories :
        /\ ticks[c] = 1
        /\ pc[c] = "commit"
        /\ Len(written[c]) = 2

\* C8: whatever the loops and threads of the other categories do, and
\* wherever they stand still, the price loop completes its MaxTicks iterations
C8_PriceLoopGoesOn == <>(ticks["price"] = MaxTicks)

\* C8 witness: the price loop has completed every iteration while the
\* high/low loop still waits for a fetch of its first round and the logo loop
\* sleeps
C8_Witness ==
    /\ ticks["price"] = MaxTicks
    /\ ticks["highlow"] = 0
    /\ pc["highlow"] = "join"
    /\ alive["highlow"] # {}
    /\ pc["image"] = "asleep"

\* C9: a symbol that has a committed row in the logo or the high/low table is
\* never left without a committed row (the claim as stated; the code breaks
\* it when another loop commits between a replace's delete and its insert)
C9_ReplaceIsAtomic ==
    [][\A c \in {"image", "highlow"} : \A s \in StockSet :
          RowsFor(committed[c], 1, s) # EmptyBag
              => RowsFor(committed'[c], 1, s) # EmptyBag]_vars

\* C10: when the clock reads 10, the price loop (interval 5) has completed at
\* least one iteration and the high/low loop (interval 5000), still in its
\* first sleep, none
C10_Cadences ==
    now = 10 => ticks["price"] >= 1 /\ ticks["highlow"] = 0

\* C10 witness: at 10 the price loop has completed an iteration, the high/low
\* loop has written its first round's rows and sleeps
C10_Witness ==
    /\ now = 10
    /\ ticks["price"] >= 1
    /\ ticks["highlow"] = 0
    /\ pc["highlow"] = "asleep"
    /\ db["highlow"] # EmptyBag

C12_DisjointWrites ==
    /\ [][\A c \in Categories :
            (results'[c] # results[c] /\ results'[c] # <<>>) =>
                /\ pc[c] \in {"launch", "join"}
                /\ \E s \in alive[c] \ Keys(results[c]) : \E v \in Payloads(c) :
                      /\ results'[c] = Append(results[c], <<s, v>>)
                      /\ alive'[c] = alive[c] \ {s}]_vars
    /\ [](\A c \in Categories :
            /\ Cardinality(Keys(results[c])) = Len(results[c])
            /\ Keys(results[c]) \cap alive[c] = {}
            /\ pc[c] \in {"launch", "join"} =>
                  /\ Keys(results[c]) \subseteq {stocks[i] : i \in 1..launched[c]}
                  /\ Len(results[c]) + Cardinality(alive[c]) <= launched[c])

\* C12 witness: the threads of a round finished in the reverse of their launch
\* order with different values, and the returned dict holds both entries
C12_Witness ==
    \E c \in Categories :
        /\ pc[c] = "call"
        /\ Len(results[c]) = Len(stocks)
        /\ results[c][1][1] = stocks[2]
        /\ results[c][2][1] = stocks[1]
        /\ results[c][1][2] # results[c][2][2]

\* C13 (as stated): a round whose fetch of some symbol never succeeds never
\* returns and its loop writes nothing further: a round returns, and a row of
\* its tick is written, only when the fetch of every symbol has succeeded
\* (the code lets the round return once the failing thread has died of
\* RecursionError, and the loop writes the rows of the other symbols)
C13_ReturnsOnlyWhenAllSucceeded ==
    [][\A c \in Categories :
          ((pc[c] = "join" /\ pc'[c] # "join") \/ db'[c] # db[c])
              => \A s \in StockSet : s \in Keys(results[c])]_vars

\* C14: a round starts with an empty dict and with no fetch thread of an
\* earlier round left; while the round collects, its dict receives only
\* entries written by threads the round itself launched, with values of its
\* own category; while the loop persists, the dict does not change; and every
\* row the tick writes is made of the entry of that dict the loop is at
C14_FreshSnapshot ==
    [][\A c \in Categories :
          /\ (pc[c] = "start" /\ pc'[c] = "launch") =>
                /\ results'[c] = <<>>
                /\ alive[c] = {} /\ alive'[c] = {}
                /\ launched'[c] = 0
          /\ (results'[c] # results[c] /\ results'[c] # <<>>) =>
                /\ pc[c] \in {"launch", "join"}
                /\ Len(results'[c]) = Len(results[c]) + 1
                /\ LET e == results'[c][Len(results'[c])]
                   IN  /\ e[1] \in alive[c] \cap {stocks[i] : i \in 1..launched[c]}
                       /\ e[1] \notin alive'[c]
                       /\ e[2] \in Payloads(c)
          /\ (pc[c] \in Persisting /\ pc'[c] \in Persisting) => results'[c] = results[c]
          /\ (written'[c] # written[c] /\ written'[c] # <<>>) =>
                /\ pc[c] \in Persisting
                /\ pos[c] \in 1..Len(results[c])
                /\ LET e == results[c][pos[c]]
                   IN  /\ written'[c] = Append(written[c], Owed(c, e[1], e[2]))
                       /\ db'[c] = InsertRow(db[c], Owed(c, e[1], e[2]))]_vars

\* C14 witness: in its second tick a loop persists for a symbol a value that
\* differs from the one it persisted for it in its first tick
C14_Witness ==
    \E c \in Categories :
        /\ ticks[c] = 1
        /\ pc[c] = "commit"
        /\ LET e == results[c][pos[c]]
           IN  /\ last[c][e[1]] # <<>>
               /\ last[c][e[1]][1] # e[2]
               /\ written[c][Len(written[c])] = Owed(c, e[1], e[2])

\* the step is one of the loop of category c or of one of its fetch threads
StepOf(c) ==
    \/ pc'[c] # pc[c]
    \/ launched'[c] # launched[c]
    \/ alive'[c] # alive[c]
    \/ depth'[c] # depth[c]
    \/ results'[c] # results[c]
    \/ pos'[c] # pos[c]
    \/ ticks'[c] # ticks[c]
    \/ wake'[c] # wake[c]

C16_RowCount ==
    LET n == BagCardinality(db["price"])
        k == ticks["price"]
        size == Cardinality(StockSet)
    IN  /\ Phase(pc["price"]) = "Collecting" => n = k * size
        /\ Phase(pc["price"]) = "Persisting" =>
              /\ n >= k * size
              /\ n <= (k + 1) * size
              /\ n = k * size + Len(written["price"])
        /\ Phase(pc["price"]) = "Sleeping" => n = (k + 1) * size

\* C17: a category has fetch threads alive only while its one round is in
\* flight, at most one per symbol and only threads that round launched; a
\* round starts, and each of its threads is launched, with no thread of an
\* earlier round of the category alive
C17_RoundsDoNotOverlap ==
    /\ [](\A c \in Categories :
            /\ Cardinality(alive[c]) <= Len(stocks)
            /\ alive[c] \subseteq {stocks[i] : i \in 1..launched[c]}
            /\ alive[c] # {} => pc[c] \in {"launch", "join"})
    /\ [][\A c \in Categories :
            /\ (pc[c] = "start" /\ pc'[c] # "start") =>
                  alive[c] = {} /\ alive'[c] = {} /\ launched'[c] = 0
            /\ launched'[c] > launched[c] =>
                  /\ pc[c] = "launch"
                  /\ launched'[c] = launched[c] + 1
                  /\ stocks[launched'[c]] \notin alive[c]
                  /\ alive'[c] = alive[c] \cup {stocks[launched'[c]]}]_vars

\* C17 witness: the price loop's second round and the logo loop's first round
\* have fetch threads alive at the same time
C17_Witness ==
    /\ ticks["price"] = 1
    /\ alive["price"] = StockSet
    /\ ticks["image"] = 0
    /\ alive["image"] # {}

====
